---------------------------- MODULE Spec2Model ----------------------------
(***************************************************************************)
(* rogue-sky: the cache-aside forecast pipeline.                           *)
(*                                                                         *)
(* Two tables (daily_weather_forecast, daily_star_visibility_forecast),    *)
(* both with PRIMARY KEY (latitude, longitude, queried_date_utc,           *)
(* weather_date_utc), an upstream provider (DarkSky) and the two entry     *)
(* points darksky.get_weather_forecast and stars.get_star_forecast.  Each  *)
(* request is a process whose steps are its calls to the store and to the  *)
(* provider; the store is the only state requests share.                   *)
(*                                                                         *)
(* Dates are day numbers of November 2019 (15 is 2019-11-15).  A           *)
(* coordinate is a <<latitude, longitude>> pair of whole degrees.          *)
(* Percentages are whole percents (93 is 0.93).                            *)
(***************************************************************************)
EXTENDS Integers, Sequences, FiniteSets, TLC

\* ------------------------------------------------------------------ bounds

\* The most requests one behaviour starts.
MaxRequests == 2

\* The request slots: two requests can be in flight at once.
Reqs == {1, 2}

\* Seattle and Boston, the coordinates of the notebook.
Coordinates == {<<47, -122>>, <<42, -71>>}

\* The dates a request can be made on.
QueriedDates == {15, 16}

\* What a request can ask for: a coordinate and the date it is made on.
Queries == {<<<<47, -122>>, 15>>, <<<<47, -122>>, 16>>, <<<<42, -71>>, 15>>}

\* What requests in flight together ask for: the same coordinate, on the same
\* date or on the next.
SharedQueries == {<<<<47, -122>>, 15>>, <<<<47, -122>>, 16>>}

\* The dates an upstream day can describe.
WeatherDates == {15, 16}

\* The moon phase of an upstream day, in percent.
MoonPhases == {46}

\* The cloud cover values of an upstream day, in percent.
CloudCovers == {0, 93}

VARIABLES
    weather,   \* table daily_weather_forecast: a set of rows
    stars,     \* table daily_star_visibility_forecast: a set of rows
    req,       \* req[r]: the request in slot r
    last,      \* the request that returned last
    started,   \* the number of requests started so far
    fetched,   \* fetched[<<coordinate, date>>]: calls the provider has received
    lost,      \* lost[<<coordinate, date>>]: requests that called the provider
               \* and returned with no row stored for their coordinate and date
    sky,       \* a forecast handed to the predictor, and what it made of it
    page       \* the frontend's forecast page

vars == <<weather, stars, req, last, started, fetched, lost, sky, page>>

\* ------------------------------------------------------------- the tables

\* The PRIMARY KEY of both tables.
KeyOf(row) ==
    <<row.latitude, row.longitude, row.queried_date_utc, row.weather_date_utc>>

\* A table satisfies its PRIMARY KEY: no two rows share a key.
PrimaryKeyHolds(table) ==
    \A a, b \in table : KeyOf(a) = KeyOf(b) => a = b

\* INSERT ... ON CONFLICT DO UPDATE: a row whose key is already stored
\* replaces the stored row.
InsertReplacing(table, rows) ==
    [ok |-> TRUE,
     table |-> {t \in table : \A n \in rows : KeyOf(n) # KeyOf(t)} \cup rows]

\* INSERT in a transaction that is never committed: nothing is stored.
InsertUncommitted(table, rows) == [ok |-> TRUE, table |-> table]

\* INSERT of a batch of rows under the PRIMARY KEY: one statement, which
\* adds every row or, when a key of the batch is already stored (or is twice
\* in the batch), fails with a unique violation and adds none.
Insert(table, rows) ==
    IF /\ \A n \in rows, t \in table : KeyOf(n) # KeyOf(t)
       /\ PrimaryKeyHolds(rows)
        THEN [ok |-> TRUE, table |-> table \cup rows]
        ELSE [ok |-> FALSE, table |-> table]

\* A selection by coordinate that leaves the queried date out.
RowsForCoordinate(table, lat, lon, date) ==
    {t \in table : t.latitude = lat /\ t.longitude = lon}

\* The rows of a table for (latitude, longitude, queried_date_utc).
RowsFor(table, lat, lon, date) ==
    {t \in table : /\ t.latitude = lat
                   /\ t.longitude = lon
                   /\ t.queried_date_utc = date}

\* The elements of a sequence, as a set.
Range(s) == {s[i] : i \in 1..Len(s)}

\* A set of rows as a sequence, by weather_date_utc descending.
RECURSIVE ByWeatherDateDescending(_)
ByWeatherDateDescending(rows) ==
    IF rows = {} THEN <<>>
    ELSE LET first == CHOOSE t \in rows :
                          \A u \in rows : t.weather_date_utc >= u.weather_date_utc
         IN  <<first>> \o ByWeatherDateDescending(rows \ {first})

\* A set of rows as a sequence, by weather_date_utc ascending.
RECURSIVE ByWeatherDate(_)
ByWeatherDate(rows) ==
    IF rows = {} THEN <<>>
    ELSE LET first == CHOOSE t \in rows :
                          \A u \in rows : t.weather_date_utc <= u.weather_date_utc
         IN  <<first>> \o ByWeatherDate(rows \ {first})

\* A lookup that finds nothing.
NotFound(table, lat, lon, date) == <<>>

\* A lookup that stops at the first row.
FirstFromDatabase(table, lat, lon, date) ==
    LET found == ByWeatherDate(RowsFor(table, lat, lon, date))
    IN  IF found = <<>> THEN <<>> ELSE <<Head(found)>>

\* darksky._from_database / stars._from_database: the rows stored for
\* (latitude, longitude, queried_date_utc); the empty list when none is.
FromDatabase(table, lat, lon, date) ==
    ByWeatherDate(RowsFor(table, lat, lon, date))


\* ----------------------------------------------------------- the provider

\* One day of the provider's daily.data: its date, its cloud cover, and
\* whether it holds every field the normalization expects.
RawDays ==
    [time : WeatherDates, cloudCover : CloudCovers, moonPhase : MoonPhases,
     complete : BOOLEAN]

\* What the provider can answer: days in ascending date order (DarkSky sends
\* 8, today first), or none.
RawBatches ==
    UNION {{b \in [1..n -> RawDays] :
                \A i \in 1..(n - 1) : b[i].time < b[i + 1].time} :
           n \in 0..Cardinality(WeatherDates)}

\* How a call to the provider can fail: the network or the provider is down,
\* the quota is used up, or no answer comes within the caller's timeout.
UpstreamFailures == {"unavailable", "rate_limited", "timeout"}

\* The error a failed call to the provider ends the request with.
UpstreamError(failure) ==
    IF failure = "rate_limited" THEN "UpstreamRateLimited"
                                ELSE "UpstreamUnavailable"

\* The canonical row of one provider day.
WeatherRow(lat, lon, date, day) ==
    [latitude |-> lat, longitude |-> lon, queried_date_utc |-> date,
     weather_date_utc |-> day.time,
     weather_json |-> [cloud_cover_pct |-> day.cloudCover,
                       moon_phase_pct |-> day.moonPhase]]

\* The subsequence of the days that hold every expected field.
RECURSIVE CompleteDays(_)
CompleteDays(raw) ==
    IF raw = <<>> THEN <<>>
    ELSE IF Head(raw).complete
        THEN <<Head(raw)>> \o CompleteDays(Tail(raw))
        ELSE CompleteDays(Tail(raw))

\* A normalization that gives the whole answer up when one day fails.
FromDarkskyAllOrNothing(lat, lon, date, raw) ==
    IF \A i \in 1..Len(raw) : raw[i].complete
        THEN [i \in 1..Len(raw) |-> WeatherRow(lat, lon, date, raw[i])]
        ELSE <<>>

\* A normalization that dates the days from the queried date: the first is
\* the queried date, each next one a day later.
FromDarkskyDatedByIndex(lat, lon, date, raw) ==
    LET days == CompleteDays(raw)
    IN  [i \in 1..Len(days) |->
            [WeatherRow(lat, lon, date, days[i])
             EXCEPT !.weather_date_utc = date + i - 1]]

\* darksky._from_darksky: the provider's days as rows queried on `date`;
\* a day that fails normalization is left out.
FromDarksky(lat, lon, date, raw) ==
    LET days == CompleteDays(raw)
    IN  [i \in 1..Len(days) |-> WeatherRow(lat, lon, date, days[i])]

\* ---------------------------------------------------------- the predictor

\* A score that also takes the moon phase off, with no clamp.
PredictUnclamped(weather_json) ==
    100 - weather_json.cloud_cover_pct - weather_json.moon_phase_pct

\* A score that is the cloud cover itself.
PredictCloudiness(weather_json) == weather_json.cloud_cover_pct

\* A score that is the mean of the three inverse signals: cloud cover,
\* precipitation probability and moon phase.
PredictWeighted(weather_json) ==
    ((100 - weather_json.cloud_cover_pct)
     + (IF "precip_probability" \in DOMAIN weather_json
            THEN 100 - weather_json.precip_probability ELSE 100)
     + (100 - weather_json.moon_phase_pct)) \div 3

\* The star visibility of a day, in percent: 100 is perfect visibility.  The
\* notebook's day has cloud cover 0.93 and star_visibility 0.0699...,
\* which is 1 - 0.93 in floating point.
Predict(weather_json) == 100 - weather_json.cloud_cover_pct

\* The fields the predictor cannot do without.
MandatoryFields == {"cloud_cover_pct", "moon_phase_pct"}

\* The predictor can score the day: it holds cloud cover and moon phase.
Scorable(weather_json) == MandatoryFields \subseteq DOMAIN weather_json

\* predict on one day: its score, or InsufficientData.
PredictDay(weather_json) ==
    IF Scorable(weather_json)
        THEN [err |-> "none", prediction |-> Predict(weather_json)]
        ELSE [err |-> "InsufficientData"]

\* The days of a forecast the predictor can score, in the forecast's order.
RECURSIVE ScorableDays(_)
ScorableDays(rows) ==
    IF rows = <<>> THEN <<>>
    ELSE IF PredictDay(Head(rows).weather_json).err = "none"
        THEN <<Head(rows)>> \o ScorableDays(Tail(rows))
        ELSE ScorableDays(Tail(rows))

\* The star row of a weather row.
StarRow(w) ==
    [latitude |-> w.latitude, longitude |-> w.longitude,
     queried_date_utc |-> w.queried_date_utc,
     weather_date_utc |-> w.weather_date_utc,
     prediction |-> Predict(w.weather_json)]

\* A prediction that gives up on the forecast when one day cannot be scored.
PredictVisibilityAllOrNothing(rows) ==
    IF \A i \in 1..Len(rows) : Scorable(rows[i].weather_json)
        THEN [i \in 1..Len(rows) |-> StarRow(rows[i])]
        ELSE <<>>

\* stars: the star rows of a weather forecast, one per day the predictor can
\* score; a day it cannot score is left out.
PredictVisibility(rows) ==
    LET days == ScorableDays(rows)
    IN  [i \in 1..Len(days) |-> StarRow(days[i])]

\* ------------------------------------------------------------ responses

\* darksky._serialize: the response's daily_forecast, one entry per row with
\* the fields of weather_json and the day's date.
SerializeWeather(rows) ==
    [i \in 1..Len(rows) |->
        [weather_date_utc |-> rows[i].weather_date_utc,
         cloud_cover_pct |-> rows[i].weather_json.cloud_cover_pct]]

\* stars._serialize of stored predictions: one entry per star row.
SerializeStars(rows) ==
    [i \in 1..Len(rows) |->
        [weather_date_utc |-> rows[i].weather_date_utc,
         star_visibility |-> rows[i].prediction]]

\* stars._serialize of a fresh forecast: one entry per day, the day's weather
\* fields and its star_visibility.
SerializeForecast(rows, predictions) ==
    [i \in 1..Len(rows) |->
        [weather_date_utc |-> rows[i].weather_date_utc,
         cloud_cover_pct |-> rows[i].weather_json.cloud_cover_pct,
         star_visibility |-> predictions[i].prediction]]

\* ------------------------------------------------------------- requests

\* A free request slot.
Idle ==
    [pc |-> "idle", kind |-> "none", latitude |-> 0, longitude |-> 0,
     queried_date_utc |-> 0,
     batch |-> <<>>,          \* the weather rows the request holds
     daily_forecast |-> <<>>, \* the response
     err |-> "none",
     upstream_calls |-> 0,    \* calls this request made to the provider
     upstream_failure |-> "none", \* how its call to the provider failed
     normalization_errors |-> 0,  \* provider days that failed normalization
     store_failure |-> "none",    \* the store call that found the store down
     geocoding |-> "none",        \* how the geocoding lookup went
     place |-> [city |-> "none", state |-> "none"],
     weather_checks |-> 0,    \* lookups this request made in the weather table
     weather_writes |-> 0,    \* weather rows this request added or changed
     star_writes |-> 0,       \* star rows this request added or changed
     pre_weather |-> {},      \* the rows stored for the request's coordinate
     pre_stars |-> {}]        \* and date when it started, in each table

Active(r) == req[r].pc # "idle"

\* What `last` keeps of a request that has returned.
Summary(q) ==
    [kind |-> q.kind, latitude |-> q.latitude, longitude |-> q.longitude,
     queried_date_utc |-> q.queried_date_utc, err |-> q.err,
     daily_forecast |-> q.daily_forecast, upstream_calls |-> q.upstream_calls,
     missed |-> q.pre_weather = {}]

\* The forecast page before it is mounted: data() of the component, no
\* route, no call made.
NoPage ==
    [route |-> <<0, 0>>, calls |-> <<>>, pending |-> {},
     star_forecast |-> <<>>, city |-> "null", state |-> "null"]

\* No forecast has been handed to the predictor.
NoSky == [forecast |-> <<>>, scores |-> <<>>, predictions |-> <<>>,
          scored |-> FALSE]

Init ==
    /\ weather = {}
    /\ stars = {}
    /\ req = [r \in Reqs |-> Idle]
    /\ last = Summary(Idle)
    /\ started = 0
    /\ fetched = [k \in Coordinates \X QueriedDates |-> 0]
    /\ lost = [k \in Coordinates \X QueriedDates |-> 0]
    /\ sky = NoSky
    /\ page = NoPage

\* A request starts, in the first free slot: get_weather_forecast or
\* get_star_forecast is called.
Begin(r, kind, c, date) ==
    /\ req[r].pc = "idle"
    /\ \A q \in Reqs : q < r => Active(q)
    /\ started < MaxRequests
    /\ started' = started + 1
    /\ req' = [req EXCEPT ![r] =
                  [Idle EXCEPT !.pc = IF kind = "star" THEN "star_check"
                                                       ELSE "weather_check",
                               !.kind = kind,
                               !.latitude = c[1], !.longitude = c[2],
                               !.queried_date_utc = date,
                               !.pre_weather = RowsFor(weather, c[1], c[2], date),
                               !.pre_stars = RowsFor(stars, c[1], c[2], date)]]
    /\ UNCHANGED <<weather, stars, last, fetched, lost, sky, page>>

\* The request ends with an error.
Failed(r, e) == [req[r] EXCEPT !.pc = "done", !.err = e]

\* A store that is unavailable at a lookup taken for a store with no row:
\* the request goes on to the next source.
StoreUnavailableFallsBack(r) ==
    /\ req[r].pc \in {"star_check", "weather_check", "weather_persist",
                      "star_persist"}
    /\ req' = [req EXCEPT ![r] =
                  [(IF req[r].pc = "star_check"
                        THEN [req[r] EXCEPT !.pc = "weather_check"]
                    ELSE IF req[r].pc = "weather_check"
                        THEN [req[r] EXCEPT !.pc = "darksky"]
                    ELSE Failed(r, "StoreUnavailable"))
                   EXCEPT !.store_failure = req[r].pc]]
    /\ UNCHANGED <<weather, stars, last, started, fetched, lost, sky, page>>

\* A call to the store finds the store unavailable, or gets no answer within
\* the caller's timeout: the request ends.
StoreUnavailable(r) ==
    /\ req[r].pc \in {"star_check", "weather_check", "weather_persist",
                      "star_persist"}
    /\ req' = [req EXCEPT ![r] =
                  [Failed(r, "StoreUnavailable")
                   EXCEPT !.store_failure = req[r].pc]]
    /\ UNCHANGED <<weather, stars, last, started, fetched, lost, sky, page>>

\* A check of the star table that goes on to the weather forecast whatever
\* it finds.
StarCheckNoReturn(r) ==
    /\ req[r].pc = "star_check"
    /\ req' = [req EXCEPT ![r] = [@ EXCEPT !.pc = "weather_check"]]
    /\ UNCHANGED <<weather, stars, last, started, fetched, lost, sky, page>>

\* stars.get_star_forecast, step 1: check the star table.  Found: serialize,
\* then look the place up.  Not found: go on to darksky.get_weather_forecast.
StarCheck(r) ==
    /\ req[r].pc = "star_check"
    /\ LET found == FromDatabase(stars, req[r].latitude, req[r].longitude,
                                 req[r].queried_date_utc)
       IN  req' = [req EXCEPT ![r] =
                      IF found # <<>>
                          THEN [@ EXCEPT !.pc = "geocode",
                                         !.daily_forecast = SerializeStars(found)]
                          ELSE [@ EXCEPT !.pc = "weather_check"]]
    /\ UNCHANGED <<weather, stars, last, started, fetched, lost, sky, page>>

\* A request that goes on to predict and to the star table whichever entry
\* point it came by.
HaveWeatherAlwaysPredicts(r, rows) ==
    [req[r] EXCEPT !.pc = "star_persist", !.batch = rows]

\* What the request does with the weather rows once it has them: a weather
\* request serializes and returns, a star request goes on to predict.
HaveWeather(r, rows) ==
    IF req[r].kind = "star"
        THEN [req[r] EXCEPT !.pc = "star_persist", !.batch = rows]
        ELSE [req[r] EXCEPT !.pc = "done", !.batch = rows,
                            !.daily_forecast = SerializeWeather(rows)]

\* A check of the weather table that goes on to the provider whatever it finds.
WeatherCheckNoReturn(r) ==
    /\ req[r].pc = "weather_check"
    /\ req' = [req EXCEPT ![r] = [@ EXCEPT !.pc = "darksky",
                                           !.weather_checks = @ + 1]]
    /\ UNCHANGED <<weather, stars, last, started, fetched, lost, sky, page>>

\* darksky.get_weather_forecast, step 1: check the weather table.  Found:
\* serialize and return.  Not found: go on to the provider.
WeatherCheck(r) ==
    /\ req[r].pc = "weather_check"
    /\ LET found == FromDatabase(weather, req[r].latitude, req[r].longitude,
                                 req[r].queried_date_utc)
       IN  req' = [req EXCEPT ![r] =
                      [(IF found # <<>>
                            THEN HaveWeather(r, found)
                            ELSE [req[r] EXCEPT !.pc = "darksky"])
                       EXCEPT !.weather_checks = @ + 1]]
    /\ UNCHANGED <<weather, stars, last, started, fetched, lost, sky, page>>

\* The provider receives one more call for the request's coordinate and date.
Called(r) ==
    [fetched EXCEPT ![<<<<req[r].latitude, req[r].longitude>>,
                       req[r].queried_date_utc>>] = @ + 1]

\* darksky.get_weather_forecast, step 2: request the forecast from DarkSky
\* and parse the answer `raw`.
CallDarksky(r, raw) ==
    /\ req[r].pc = "darksky"
    /\ fetched' = Called(r)
    /\ req' = [req EXCEPT ![r] =
                  [@ EXCEPT !.pc = "weather_persist",
                            !.upstream_calls = @ + 1,
                            !.normalization_errors =
                                Len(raw) - Len(CompleteDays(raw)),
                            !.batch = FromDarksky(req[r].latitude,
                                                  req[r].longitude,
                                                  req[r].queried_date_utc, raw)]]
    /\ UNCHANGED <<weather, stars, last, started, lost, sky, page>>

\* A failed call to DarkSky taken for an answer with no day.
DarkskyFailsQuietly(r, failure) ==
    /\ req[r].pc = "darksky"
    /\ fetched' = Called(r)
    /\ req' = [req EXCEPT ![r] =
                  [@ EXCEPT !.pc = "weather_persist",
                            !.upstream_calls = @ + 1,
                            !.upstream_failure = failure]]
    /\ UNCHANGED <<weather, stars, last, started, lost, sky, page>>

\* A failed call to DarkSky that is made once more before the request gives
\* up.
DarkskyFailsRetriesOnce(r, failure) ==
    /\ req[r].pc = "darksky"
    /\ fetched' = Called(r)
    /\ req' = [req EXCEPT ![r] =
                  [(IF req[r].upstream_calls = 0
                        THEN req[r]
                        ELSE Failed(r, UpstreamError(failure)))
                   EXCEPT !.upstream_calls = @ + 1,
                          !.upstream_failure = failure]]
    /\ UNCHANGED <<weather, stars, last, started, lost, sky, page>>

\* A failed call to DarkSky that leaves the request waiting for the answer.
DarkskyFailsAndWaits(r, failure) ==
    /\ req[r].pc = "darksky"
    /\ fetched' = Called(r)
    /\ req' = [req EXCEPT ![r] =
                  [@ EXCEPT !.pc = "waiting",
                            !.upstream_calls = @ + 1,
                            !.upstream_failure = failure]]
    /\ UNCHANGED <<weather, stars, last, started, lost, sky, page>>

\* The call to DarkSky fails: the request ends with the provider's error.
DarkskyFails(r, failure) ==
    /\ req[r].pc = "darksky"
    /\ fetched' = Called(r)
    /\ req' = [req EXCEPT ![r] =
                  [Failed(r, UpstreamError(failure))
                   EXCEPT !.upstream_calls = @ + 1,
                          !.upstream_failure = failure]]
    /\ UNCHANGED <<weather, stars, last, started, lost, sky, page>>

\* The number of rows in which two states of a table differ.
Changed(before, after) == Cardinality((after \ before) \cup (before \ after))

\* A persist that stores the first row of the batch only.
FirstToWeatherTable(table, rows) ==
    Insert(table, IF rows = <<>> THEN {} ELSE {Head(rows)})

\* A persist that replaces the rows already stored under its keys.
UpsertToWeatherTable(table, rows) == InsertReplacing(table, Range(rows))

\* darksky._to_database: the batch is inserted into the weather table.
ToWeatherTable(table, rows) == Insert(table, Range(rows))

\* A persist that commits one row at a time: each step stores the first row
\* of the batch that is not stored yet, and the request goes on when none
\* is left.
WeatherPersistRowByRow(r) ==
    /\ req[r].pc = "weather_persist"
    /\ LET missing == SelectSeq(req[r].batch, LAMBDA w : w \notin weather)
       IN  IF missing = <<>>
               THEN /\ weather' = weather
                    /\ req' = [req EXCEPT ![r] = HaveWeather(r, req[r].batch)]
               ELSE /\ weather' = weather \cup {Head(missing)}
                    /\ req' = [req EXCEPT ![r] =
                                  [@ EXCEPT !.weather_writes = @ + 1]]
    /\ UNCHANGED <<stars, last, started, fetched, lost, sky, page>>

\* darksky.get_weather_forecast, step 3: persist the batch, then serialize
\* and return (or go on to predict).  A unique violation ends the request
\* with the name of the violated constraint.
WeatherPersist(r) ==
    /\ req[r].pc = "weather_persist"
    /\ LET done == ToWeatherTable(weather, req[r].batch)
       IN  /\ weather' = done.table
           /\ req' = [req EXCEPT ![r] =
                         [(IF done.ok THEN HaveWeather(r, req[r].batch)
                                      ELSE Failed(r, "daily_weather_forecast_pkey"))
                          EXCEPT !.weather_writes = Changed(weather, done.table)]]
    /\ UNCHANGED <<stars, last, started, fetched, lost, sky, page>>

\* A persist that stores the first prediction only.
FirstToStarTable(table, rows) ==
    Insert(table, IF rows = <<>> THEN {} ELSE {Head(rows)})

\* stars._to_database: the predictions are inserted into the star table.
ToStarTable(table, rows) == Insert(table, Range(rows))

\* stars.get_star_forecast, step 2: predict the visibility of every day of
\* the weather forecast, persist the predictions, serialize, then look the
\* place up.
StarPersist(r) ==
    /\ req[r].pc = "star_persist"
    /\ LET predictions == PredictVisibility(req[r].batch)
           days == ScorableDays(req[r].batch)
           done == ToStarTable(stars, predictions)
       IN  /\ stars' = done.table
           /\ req' = [req EXCEPT ![r] =
                         [(IF done.ok
                               THEN [@ EXCEPT !.pc = "geocode",
                                              !.daily_forecast =
                                                  SerializeForecast(days,
                                                                    predictions)]
                               ELSE Failed(r, "daily_star_visibility_forecast_pkey"))
                          EXCEPT !.star_writes = Changed(stars, done.table)]]
    /\ UNCHANGED <<weather, last, started, fetched, lost, sky, page>>

\* The city and state of a coordinate.
PlaceOf(lat, lon) ==
    IF lat = 47 THEN [city |-> "Seattle", state |-> "WA"]
                ELSE [city |-> "Boston", state |-> "MA"]

\* The place of a response whose coordinate could not be resolved.
NullPlace == [city |-> "null", state |-> "null"]

\* stars.get_star_forecast, step 3: the geocoding lookup resolves the
\* coordinate; the response carries its city and state.
Geocode(r) ==
    /\ req[r].pc = "geocode"
    /\ req' = [req EXCEPT ![r] =
                  [@ EXCEPT !.pc = "done", !.geocoding = "resolved",
                            !.place = PlaceOf(req[r].latitude,
                                              req[r].longitude)]]
    /\ UNCHANGED <<weather, stars, last, started, fetched, lost, sky, page>>

\* A geocoding failure that ends the request with an error.
GeocodeFailsRequest(r) ==
    /\ req[r].pc = "geocode"
    /\ req' = [req EXCEPT ![r] =
                  [Failed(r, "GeocodeUnavailable")
                   EXCEPT !.geocoding = "failed", !.daily_forecast = <<>>]]
    /\ UNCHANGED <<weather, stars, last, started, fetched, lost, sky, page>>

\* The geocoding lookup fails: the response carries null city and state.
GeocodeFails(r) ==
    /\ req[r].pc = "geocode"
    /\ req' = [req EXCEPT ![r] =
                  [@ EXCEPT !.pc = "done", !.geocoding = "failed",
                            !.place = NullPlace]]
    /\ UNCHANGED <<weather, stars, last, started, fetched, lost, sky, page>>

\* The request's coordinate and date.
QueryOf(q) == <<<<q.latitude, q.longitude>>, q.queried_date_utc>>

\* The request returns to its caller, who keeps the response until the next
\* call returns; the request's slot is free again.
Return(r) ==
    /\ req[r].pc = "done"
    /\ last' = Summary(req[r])
    /\ lost' = IF /\ req[r].upstream_calls > 0
                  /\ RowsFor(weather, req[r].latitude, req[r].longitude,
                             req[r].queried_date_utc) = {}
                   THEN [lost EXCEPT ![QueryOf(req[r])] = @ + 1]
                   ELSE lost
    /\ req' = [req EXCEPT ![r] = Idle]
    /\ UNCHANGED <<weather, stars, started, fetched, sky, page>>

\* The request returns to one of many callers; its slot is free again.
Finish(r) ==
    /\ req[r].pc = "done"
    /\ req' = [req EXCEPT ![r] = Idle]
    /\ UNCHANGED <<weather, stars, last, started, fetched, lost, sky, page>>

\* One step of the request in slot r, once it has started.
Step(r) ==
    \/ StarCheck(r)
    \/ WeatherCheck(r)
    \/ \E raw \in RawBatches : CallDarksky(r, raw)
    \/ \E failure \in UpstreamFailures : DarkskyFails(r, failure)
    \/ WeatherPersist(r)
    \/ StarPersist(r)
    \/ Geocode(r)
    \/ GeocodeFails(r)
    \/ StoreUnavailable(r)

\* Requests run concurrently: any interleaving of their steps.
Next ==
    \E r \in Reqs :
        \/ \E kind \in {"weather", "star"}, q \in SharedQueries :
               Begin(r, kind, q[1], q[2])
        \/ Step(r)
        \/ Finish(r)

Spec == Init /\ [][Next]_vars

\* Requests run one at a time, made by one caller: each finishes before the
\* next starts.
SeqNext ==
    \E r \in Reqs :
        \/ /\ \A q \in Reqs : ~Active(q)
           /\ \E kind \in {"weather", "star"}, q \in Queries :
                  Begin(r, kind, q[1], q[2])
        \/ Step(r)
        \/ Return(r)

SeqSpec == Init /\ [][SeqNext]_vars

\* Requests for one coordinate, one at a time.
LiveNext ==
    \E r \in Reqs :
        \/ /\ \A q \in Reqs : ~Active(q)
           /\ \E kind \in {"weather", "star"}, q \in SharedQueries :
                  Begin(r, kind, q[1], q[2])
        \/ Step(r)
        \/ Return(r)

\* Every call of a request is bounded by the caller's timeout: a request that
\* can take a step takes one in the end.
LiveSpec == Init /\ [][LiveNext]_vars /\ \A r \in Reqs : WF_vars(Step(r))

\* ------------------------------------------------- the predictor on its own

\* The fields of weather_json the predictor is given here, and the values
\* each can hold, in percent (the UV index in its own unit).
FieldValues ==
    [cloud_cover_pct |-> {0, 50, 93, 100},
     moon_phase_pct |-> {0, 46, 100},
     precip_probability |-> {0, 34},
     uv_index |-> {5}]

\* Every weather_json over these fields: each field is there, with one of
\* its values, or is missing.
WeatherJsons ==
    UNION {{j \in [fields -> UNION {FieldValues[f] : f \in fields}] :
                \A f \in fields : j[f] \in FieldValues[f]} :
           fields \in SUBSET (DOMAIN FieldValues)}

\* The forecasts handed to the predictor: one or two days of Seattle's
\* forecast of the 15th, in date order.
Forecasts ==
    {<<[latitude |-> 47, longitude |-> -122, queried_date_utc |-> 15,
        weather_date_utc |-> 15, weather_json |-> j]>> : j \in WeatherJsons}
    \cup
    {<<[latitude |-> 47, longitude |-> -122, queried_date_utc |-> 15,
        weather_date_utc |-> 15, weather_json |-> j],
       [latitude |-> 47, longitude |-> -122, queried_date_utc |-> 15,
        weather_date_utc |-> 16, weather_json |-> k]>> :
     j \in WeatherJsons, k \in WeatherJsons}

\* A forecast is at hand, and nothing else has happened.
PredictInit ==
    /\ weather = {}
    /\ stars = {}
    /\ req = [r \in Reqs |-> Idle]
    /\ last = Summary(Idle)
    /\ started = 0
    /\ fetched = [k \in Coordinates \X QueriedDates |-> 0]
    /\ lost = [k \in Coordinates \X QueriedDates |-> 0]
    /\ sky \in {[NoSky EXCEPT !.forecast = f] : f \in Forecasts}
    /\ page = NoPage

\* The predictor scores each day of the forecast, and the forecast as a whole.
Score ==
    /\ ~sky.scored
    /\ sky' = [sky EXCEPT
                  !.scores = [i \in 1..Len(sky.forecast) |->
                                 PredictDay(sky.forecast[i].weather_json)],
                  !.predictions = PredictVisibility(sky.forecast),
                  !.scored = TRUE]
    /\ UNCHANGED <<weather, stars, req, last, started, fetched, lost, page>>

PredictSpec == PredictInit /\ [][Score]_vars

\* ------------------------------------------------------ the forecast page

\* The most calls to getStarForecast the page makes in one behaviour.
MaxCalls == 3

\* The coordinates a route /:latitude/:longitude can name.
Routes == {<<47, -122>>, <<42, -71>>, <<40, -74>>}

\* The response to getStarForecast for a coordinate: response.data, with the
\* coordinate standing for the forecast of that coordinate.
ResponseFor(c) ==
    [daily_forecast |-> <<c[1], c[2]>>,
     city |-> IF c[1] = 47 THEN "Seattle"
              ELSE IF c[1] = 42 THEN "Boston" ELSE "New York",
     state |-> IF c[1] = 47 THEN "WA"
               ELSE IF c[1] = 42 THEN "MA" ELSE "NY"]

\* methods.getForecast: getStarForecast is called for the coordinate; its
\* callback runs when the response arrives.
GetForecast(c) ==
    [page EXCEPT !.calls = Append(@, c),
                 !.pending = @ \cup {Len(page.calls) + 1}]

\* mounted(): the page is created on a route and asks for its forecast.
Mounted(c) ==
    /\ page.route = <<0, 0>>
    /\ Len(page.calls) < MaxCalls
    /\ page' = [GetForecast(c) EXCEPT !.route = c]
    /\ UNCHANGED <<weather, stars, req, last, started, fetched, lost, sky>>

\* watch.$route: the route changes to another coordinate and the page asks
\* for its forecast.
RouteChanged(c) ==
    /\ page.route # <<0, 0>>
    /\ page.route # c
    /\ Len(page.calls) < MaxCalls
    /\ page' = [GetForecast(c) EXCEPT !.route = c]
    /\ UNCHANGED <<weather, stars, req, last, started, fetched, lost, sky>>

\* The then-callback of getForecast: the response of call n arrives and the
\* page shows it.
ResponseArrived(n) ==
    /\ n \in page.pending
    /\ page' = [page EXCEPT
                    !.pending = @ \ {n},
                    !.star_forecast = ResponseFor(page.calls[n]).daily_forecast,
                    !.city = ResponseFor(page.calls[n]).city,
                    !.state = ResponseFor(page.calls[n]).state]
    /\ UNCHANGED <<weather, stars, req, last, started, fetched, lost, sky>>

\* The page on its own: routes change and responses arrive in any order.
PageNext ==
    \/ \E c \in Routes : Mounted(c)
    \/ \E c \in Routes : RouteChanged(c)
    \/ \E n \in 1..MaxCalls : ResponseArrived(n)

PageSpec == Init /\ [][PageNext]_vars

\* ---------------------------------------------------------------- claims

\* The request in slot r has finished and has not yet returned.
Done(r) == req[r].pc = "done"

\* Every coordinate and date a row or a call can be for.
AllQueries == Coordinates \X QueriedDates

\* The rows stored now for the request's coordinate and date.
WeatherRowsOf(q) ==
    {t \in weather : /\ t.latitude = q.latitude
                     /\ t.longitude = q.longitude
                     /\ t.queried_date_utc = q.queried_date_utc}

StarRowsOf(q) ==
    {t \in stars : /\ t.latitude = q.latitude
                   /\ t.longitude = q.longitude
                   /\ t.queried_date_utc = q.queried_date_utc}

\* The rows of a set in ascending order of weather_date_utc.
RECURSIVE Ascending(_)
Ascending(rows) ==
    IF rows = {} THEN <<>>
    ELSE LET first == CHOOSE t \in rows :
                          \A u \in rows : t.weather_date_utc <= u.weather_date_utc
         IN  <<first>> \o Ascending(rows \ {first})

\* The daily_forecast entries of a sequence of weather rows.
Entries(rows) ==
    [i \in 1..Len(rows) |->
        [weather_date_utc |-> rows[i].weather_date_utc,
         cloud_cover_pct |-> rows[i].weather_json.cloud_cover_pct]]

\* The daily_forecast entries of a sequence of star rows.
StarEntries(rows) ==
    [i \in 1..Len(rows) |->
        [weather_date_utc |-> rows[i].weather_date_utc,
         star_visibility |-> rows[i].prediction]]

\* C1, as claimed: over requests made one after another, with failures of the
\* provider and of the store allowed, the provider receives at most one call
\* for each (latitude, longitude, as_of_date).
C1_AtMostOneFetch ==
    \A k \in AllQueries : fetched[k] <= 1

\* C1, amended: over requests made one after another, the calls the provider
\* receives for (latitude, longitude, as_of_date) are at most one more than
\* the requests that called it for them and returned with no row stored for
\* them (the provider failed, the persist failed, or no day was usable).
C1_FetchesAccounted ==
    \A k \in AllQueries : fetched[k] <= 1 + lost[k]

\* C1's case: a second request for a coordinate and date is served from the
\* rows the first one fetched, and the provider has received one call.
C1_Witness ==
    \E r \in Reqs :
        /\ Done(r) /\ req[r].err = "none" /\ req[r].kind = "weather"
        /\ req[r].pre_weather # {}
        /\ fetched[QueryOf(req[r])] = 1
        /\ lost[QueryOf(req[r])] = 0

\* The request in slot r is the second of two get_weather_forecast calls in
\* a row for the same coordinate and date, the first made with no row stored
\* for them, and both returned a forecast.
TwiceInARow(r) ==
    /\ Done(r) /\ req[r].kind = "weather" /\ req[r].err = "none"
    /\ last.kind = "weather" /\ last.err = "none" /\ last.missed
    /\ last.latitude = req[r].latitude
    /\ last.longitude = req[r].longitude
    /\ last.queried_date_utc = req[r].queried_date_utc

\* C2, as claimed: two get_weather_forecast calls in a row for the same
\* (latitude, longitude, as_of_date), starting with nothing stored, make one
\* call to the provider in total and return the same forecast.
C2_Idempotent ==
    \A r \in Reqs :
        TwiceInARow(r) =>
            /\ last.upstream_calls + req[r].upstream_calls = 1
            /\ req[r].daily_forecast = last.daily_forecast

\* C2, amended: the same, when the first call returned at least one day.
C2_IdempotentNonEmpty ==
    \A r \in Reqs :
        (TwiceInARow(r) /\ last.daily_forecast # <<>>) =>
            /\ last.upstream_calls + req[r].upstream_calls = 1
            /\ req[r].daily_forecast = last.daily_forecast

\* C2's case: the second of two calls has returned a forecast of two days.
C2_Witness ==
    \E r \in Reqs : TwiceInARow(r) /\ Len(req[r].daily_forecast) = 2

\* C3: a get_weather_forecast request made while the weather table holds a row
\* for (latitude, longitude, as_of_date) makes no call to the provider and,
\* when the store answers, returns the stored rows in date order.
C3_CacheHit ==
    \A r \in Reqs :
        (Done(r) /\ req[r].pre_weather # {}) =>
            /\ req[r].upstream_calls = 0
            /\ (req[r].kind = "weather" /\ req[r].err = "none") =>
                   req[r].daily_forecast = Entries(Ascending(req[r].pre_weather))

\* C3's case: a request has returned two stored days.
C3_Witness ==
    \E r \in Reqs :
        /\ Done(r) /\ req[r].kind = "weather" /\ req[r].err = "none"
        /\ Cardinality(req[r].pre_weather) = 2
        /\ Len(req[r].daily_forecast) = 2

\* The request in slot r is a get_weather_forecast that found no row stored
\* and returned a forecast.
MissServed(r) ==
    /\ Done(r) /\ req[r].kind = "weather" /\ req[r].err = "none"
    /\ req[r].pre_weather = {}

\* C4: a get_weather_forecast request that finds no row, with the provider and
\* the store both answering, makes exactly one call to the provider; when it
\* returns, every record of the batch is stored under queried_date_utc =
\* as_of_date, and the response is the batch.
C4_CacheMiss ==
    \A r \in Reqs :
        MissServed(r) =>
            /\ req[r].upstream_calls = 1
            /\ Range(req[r].batch) \subseteq WeatherRowsOf(req[r])
            /\ req[r].daily_forecast = Entries(req[r].batch)

\* C4's case: a request has fetched, stored and returned two days.
C4_Witness ==
    \E r \in Reqs : MissServed(r) /\ Len(req[r].daily_forecast) = 2

\* The request in slot r has persisted its batch in the weather table.
Persisted(r) ==
    /\ req[r].upstream_calls = 1
    /\ \/ Done(r) /\ req[r].kind = "weather" /\ req[r].err = "none"
       \/ req[r].pc = "star_persist"

\* C5: after the persist of a batch for (latitude, longitude, queried_date),
\* the lookup for them returns exactly the batch: every record once, in the
\* batch's order, and no other.
C5_PersistThenLookup ==
    \A r \in Reqs :
        Persisted(r) =>
            FromDatabase(weather, req[r].latitude, req[r].longitude,
                         req[r].queried_date_utc) = req[r].batch

\* C5's case: a batch of two days has been persisted.
C5_Witness ==
    \E r \in Reqs : Persisted(r) /\ Len(req[r].batch) = 2

\* The request in slot r has sent its batch to the weather table and the
\* store has answered.
PersistAnswered(r) ==
    /\ Done(r)
    /\ req[r].upstream_calls = 1
    /\ req[r].upstream_failure = "none"
    /\ req[r].err # "StoreUnavailable"

\* C6, as claimed: each table holds at most one row per (latitude, longitude,
\* queried_date, forecast_date), and a persist of a record whose key is
\* already stored with other content succeeds and replaces it: once the
\* store has answered a persist, the table holds the batch's records.
C6_PersistReplaces ==
    /\ PrimaryKeyHolds(weather)
    /\ PrimaryKeyHolds(stars)
    /\ \A r \in Reqs :
           PersistAnswered(r) => Range(req[r].batch) \subseteq weather

C8_StarCacheHit ==
    \A r \in Reqs :
        (Done(r) /\ req[r].kind = "star" /\ req[r].pre_stars # {}) =>
            /\ req[r].weather_checks = 0
            /\ req[r].upstream_calls = 0
            /\ req[r].weather_writes = 0
            /\ req[r].star_writes = 0
            /\ StarRowsOf(req[r]) = req[r].pre_stars
            /\ req[r].err = "none" =>
                   req[r].daily_forecast = StarEntries(Ascending(req[r].pre_stars))

\* C8's case: a get_star_forecast request has returned stored predictions.
C8_Witness ==
    \E r \in Reqs :
        /\ Done(r) /\ req[r].kind = "star" /\ req[r].err = "none"
        /\ req[r].pre_stars # {}
        /\ Len(req[r].daily_forecast) = 2

\* The request in slot r is a get_star_forecast that found no row in either
\* table and returned a forecast.
StarMissServed(r) ==
    /\ Done(r) /\ req[r].kind = "star" /\ req[r].err = "none"
    /\ req[r].pre_stars = {} /\ req[r].pre_weather = {}

\* C9: a get_star_forecast request with no row stored in either table makes
\* exactly one call to the provider and, when it returns, the star table holds
\* exactly one row per weather day fetched, under that day's key.
C9_StarCacheMiss ==
    \A r \in Reqs :
        StarMissServed(r) =>
            /\ req[r].upstream_calls = 1
            /\ Cardinality(StarRowsOf(req[r])) = Len(req[r].batch)
            /\ {KeyOf(t) : t \in StarRowsOf(req[r])}
                   = {KeyOf(w) : w \in Range(req[r].batch)}

\* C9's case: a get_star_forecast request has fetched and scored two days.
C9_Witness ==
    \E r \in Reqs : StarMissServed(r) /\ Len(req[r].batch) = 2

\* C10: under any interleaving of requests, each row of the star table has a
\* row of the weather table with its key, and its prediction is 100 minus
\* that row's cloud cover (the predictor's score of that row).
C10_StarsDerived ==
    \A t \in stars :
        \E w \in weather :
            /\ KeyOf(w) = KeyOf(t)
            /\ t.prediction = 100 - w.weather_json.cloud_cover_pct

\* C10's case: predictions are stored and a concurrent request for the same
\* coordinate and date, holding another batch, has been refused.
C10_Witness ==
    /\ stars # {}
    /\ \E r \in Reqs :
           /\ req[r].err = "daily_weather_forecast_pkey"
           /\ StarRowsOf(req[r]) # {}
           /\ ~(Range(req[r].batch) \subseteq weather)

\* The predictor's case: the forecast has n days and has been scored.
Scored(n) == sky.scored /\ Len(sky.forecast) = n

\* The weather_json of day i of the forecast handed to the predictor.
JsonOf(i) == sky.forecast[i].weather_json

\* A weather_json holds cloud cover and moon phase.
HasBoth(j) == "cloud_cover_pct" \in DOMAIN j /\ "moon_phase_pct" \in DOMAIN j

\* A valid weather record: cloud cover and moon phase are there, and every
\* percentage it holds is between 0 and 100.
ValidRecord(j) ==
    /\ HasBoth(j)
    /\ \A f \in DOMAIN j \ {"uv_index"} : j[f] \in 0..100

\* Two weather_json differ in field f at most.
SameBut(j, k, f) ==
    /\ DOMAIN j = DOMAIN k
    /\ \A g \in DOMAIN j \ {f} : j[g] = k[g]

\* C15: the score of every valid weather record is between 0 and 100 percent
\* (0 is no visibility, 100 is perfect visibility), and so is every
\* prediction made for the star table.
C15_ScoreBounds ==
    sky.scored =>
        /\ \A i \in 1..Len(sky.forecast) :
               ValidRecord(JsonOf(i)) =>
                   /\ sky.scores[i].err = "none"
                   /\ sky.scores[i].prediction \in 0..100
        /\ \A i \in 1..Len(sky.predictions) :
               sky.predictions[i].prediction \in 0..100

\* C15's case: an overcast day and a clear day have been scored, at the two
\* ends of the range.
C15_Witness ==
    /\ Scored(2)
    /\ ValidRecord(JsonOf(1)) /\ JsonOf(1).cloud_cover_pct = 100
    /\ ValidRecord(JsonOf(2)) /\ JsonOf(2).cloud_cover_pct = 0
    /\ sky.scores[1].prediction = 0
    /\ sky.scores[2].prediction = 100

\* C16: of two valid weather records that differ in cloud cover only, the one
\* with the higher cloud cover has no higher a score; the same for two
\* records that differ in moon phase only.
C16_Monotone ==
    Scored(2) =>
        \A f \in {"cloud_cover_pct", "moon_phase_pct"} :
            (/\ ValidRecord(JsonOf(1)) /\ ValidRecord(JsonOf(2))
             /\ SameBut(JsonOf(1), JsonOf(2), f)
             /\ JsonOf(1)[f] >= JsonOf(2)[f]) =>
                /\ sky.scores[1].err = "none"
                /\ sky.scores[2].err = "none"
                /\ sky.scores[1].prediction <= sky.scores[2].prediction

\* C16's case: two days that differ in cloud cover only have been scored, and
\* the cloudier one scored lower.
C16_Witness ==
    /\ Scored(2)
    /\ ValidRecord(JsonOf(1)) /\ ValidRecord(JsonOf(2))
    /\ SameBut(JsonOf(1), JsonOf(2), "cloud_cover_pct")
    /\ JsonOf(1).cloud_cover_pct > JsonOf(2).cloud_cover_pct
    /\ sky.scores[1].prediction < sky.scores[2].prediction

\* The notebook's day: cloud cover 0.93, precipitation probability 0.34, moon
\* phase 0.46.
ReferenceDay(j) ==
    /\ DOMAIN j = {"cloud_cover_pct", "moon_phase_pct", "precip_probability",
                   "uv_index"}
    /\ j.cloud_cover_pct = 93
    /\ j.precip_probability = 34
    /\ j.moon_phase_pct = 46

\* A day with no cloud, no chance of precipitation and a new moon.
ClearDay(j) ==
    /\ DOMAIN j = {"cloud_cover_pct", "moon_phase_pct", "precip_probability",
                   "uv_index"}
    /\ j.cloud_cover_pct = 0
    /\ j.precip_probability = 0
    /\ j.moon_phase_pct = 0

\* C17: the day with cloud cover 0.93, precipitation probability 0.34 and
\* moon phase 0.46 scores about 0.07 (between 6 and 8 percent), and the day
\* with all three at 0 scores near 1 (95 percent or more).
C17_Reference ==
    sky.scored =>
        \A i \in 1..Len(sky.forecast) :
            /\ ReferenceDay(JsonOf(i)) =>
                   /\ sky.scores[i].err = "none"
                   /\ sky.scores[i].prediction \in 6..8
            /\ ClearDay(JsonOf(i)) =>
                   /\ sky.scores[i].err = "none"
                   /\ sky.scores[i].prediction \in 95..100

\* C17's case: the notebook's day and the clear day have both been scored.
C17_Witness ==
    /\ Scored(2)
    /\ ReferenceDay(JsonOf(1))
    /\ ClearDay(JsonOf(2))
    /\ sky.scores[1].err = "none"
    /\ sky.scores[2].err = "none"

\* The dates of the days of a forecast that hold cloud cover and moon phase,
\* in the forecast's order.
RECURSIVE DatesWithBoth(_)
DatesWithBoth(rows) ==
    IF rows = <<>> THEN <<>>
    ELSE (IF HasBoth(Head(rows).weather_json)
              THEN <<Head(rows).weather_date_utc>> ELSE <<>>)
         \o DatesWithBoth(Tail(rows))

C11_RowsStay ==
    [][/\ \A t \in weather : t \in weather'
       /\ \A t \in stars : t \in stars']_vars

\* C11's case: a get_star_forecast request has written predictions next to
\* weather rows stored before it started, and those rows are as they were.
C11_Witness ==
    \E r \in Reqs :
        /\ Done(r) /\ req[r].kind = "star" /\ req[r].err = "none"
        /\ req[r].pre_weather # {}
        /\ req[r].star_writes > 0
        /\ WeatherRowsOf(req[r]) = req[r].pre_weather

\* Requests a and b are two get_weather_forecast requests for the same
\* coordinate and date that both found no row, both got the same batch from
\* the provider, and both got an answer from the store.
BothMissed(a, b) ==
    /\ a # b
    /\ Done(a) /\ Done(b)
    /\ req[a].kind = "weather" /\ req[b].kind = "weather"
    /\ QueryOf(req[a]) = QueryOf(req[b])
    /\ req[a].upstream_calls = 1 /\ req[b].upstream_calls = 1
    /\ req[a].upstream_failure = "none" /\ req[b].upstream_failure = "none"
    /\ req[a].store_failure = "none" /\ req[b].store_failure = "none"
    /\ req[a].batch = req[b].batch

\* C12, as claimed: when two concurrent get_weather_forecast requests for the
\* same (latitude, longitude, as_of_date) both miss, fetch the same batch and
\* persist it, neither fails, and the weather table holds the batch, one row
\* per key.
C12_ConcurrentMisses ==
    \A a, b \in Reqs :
        BothMissed(a, b) =>
            /\ req[a].err = "none" /\ req[b].err = "none"
            /\ WeatherRowsOf(req[a]) = Range(req[a].batch)
            /\ PrimaryKeyHolds(weather)

\* C13: a request that found the store unavailable at a store call has ended
\* with StoreUnavailable and no forecast; when the call was a lookup, it has
\* made no call to the provider.
C13_StoreUnavailable ==
    \A r \in Reqs :
        req[r].store_failure # "none" =>
            /\ Done(r)
            /\ req[r].err = "StoreUnavailable"
            /\ req[r].daily_forecast = <<>>
            /\ req[r].store_failure \in {"star_check", "weather_check"} =>
                   req[r].upstream_calls = 0

\* C13's case: a get_weather_forecast request has found the store unavailable
\* at its lookup, while rows are stored for its coordinate and date.
C13_Witness ==
    \E r \in Reqs :
        /\ Done(r) /\ req[r].kind = "weather"
        /\ req[r].store_failure = "weather_check"
        /\ req[r].pre_weather # {}

\* The daily_forecast of a get_star_forecast request made of its batch: each
\* day's weather fields and 100 minus its cloud cover.
ForecastEntries(rows) ==
    [i \in 1..Len(rows) |->
        [weather_date_utc |-> rows[i].weather_date_utc,
         cloud_cover_pct |-> rows[i].weather_json.cloud_cover_pct,
         star_visibility |-> 100 - rows[i].weather_json.cloud_cover_pct]]

\* C14: a get_star_forecast request whose geocoding lookup failed has not
\* failed: it returns the daily forecast it returns when the lookup works
\* (the stored predictions, or the fetched days scored), with null city and
\* state.
C14_GeocodingFailure ==
    \A r \in Reqs :
        req[r].geocoding = "failed" =>
            /\ Done(r)
            /\ req[r].err = "none"
            /\ req[r].place = [city |-> "null", state |-> "null"]
            /\ req[r].daily_forecast =
                   IF req[r].pre_stars # {}
                       THEN StarEntries(Ascending(req[r].pre_stars))
                       ELSE ForecastEntries(req[r].batch)

\* C14's case: a get_star_forecast request has fetched and scored two days
\* and its geocoding lookup has failed.
C14_Witness ==
    \E r \in Reqs :
        /\ Done(r) /\ req[r].kind = "star"
        /\ req[r].geocoding = "failed"
        /\ req[r].upstream_calls = 1
        /\ Len(req[r].daily_forecast) = 2

\* An upstream day passes normalization.
PassesNormalization(day) == day.complete

\* The rows of the provider's days that pass normalization, in the
\* provider's order and with the provider's dates.
KeptRows(lat, lon, date, raw) ==
    LET kept == SelectSeq(raw, PassesNormalization)
    IN  [i \in 1..Len(kept) |->
            [latitude |-> lat, longitude |-> lon, queried_date_utc |-> date,
             weather_date_utc |-> kept[i].time,
             weather_json |-> [cloud_cover_pct |-> kept[i].cloudCover,
                               moon_phase_pct |-> kept[i].moonPhase]]]

\* C18: when the provider's answer holds a day that fails normalization, the
\* request goes on with every other day of the answer, that day alone left
\* out; and a get_weather_forecast request that left a day out and returned
\* has stored and returned every day it kept.
C18_BadDayLeftOut ==
    [][/\ \A r \in Reqs, raw \in RawBatches :
              CallDarksky(r, raw) =>
                  /\ req'[r].err = "none"
                  /\ req'[r].batch =
                         KeptRows(req[r].latitude, req[r].longitude,
                                  req[r].queried_date_utc, raw)
       /\ \A r \in Reqs :
              (MissServed(r) /\ req[r].normalization_errors > 0) =>
                  /\ Range(req[r].batch) \subseteq weather
                  /\ req[r].daily_forecast = Entries(req[r].batch)]_vars

\* C18's case: of two days the provider sent, one failed normalization, and
\* the request has stored and returned the other.
C18_Witness ==
    \E r \in Reqs :
        /\ MissServed(r)
        /\ req[r].normalization_errors = 1
        /\ Len(req[r].daily_forecast) = 1
        /\ Range(req[r].batch) \subseteq weather

\* C20, as claimed: in the batch a get_weather_forecast cache miss returns,
\* the record at index 0 has forecast_date = as_of_date and the record at
\* index i has forecast_date = as_of_date + i days.
C20_DayZeroIsAsOfDate ==
    \A r \in Reqs :
        MissServed(r) =>
            \A i \in 1..Len(req[r].batch) :
                req[r].batch[i].weather_date_utc
                    = req[r].queried_date_utc + (i - 1)

\* C20, amended: the records of the batch carry the dates the provider gave
\* its days, in the provider's order, and queried_date = as_of_date; in the
\* batch a cache miss returns, forecast_date is strictly ascending.
C20_DatesFromProvider ==
    [][/\ \A r \in Reqs, raw \in RawBatches :
              CallDarksky(r, raw) =>
                  LET kept == SelectSeq(raw, PassesNormalization)
                  IN  /\ Len(req'[r].batch) = Len(kept)
                      /\ \A i \in 1..Len(kept) :
                             /\ req'[r].batch[i].weather_date_utc = kept[i].time
                             /\ req'[r].batch[i].queried_date_utc
                                    = req[r].queried_date_utc
       /\ \A r \in Reqs :
              MissServed(r) =>
                  \A i \in 1..(Len(req[r].batch) - 1) :
                      req[r].batch[i].weather_date_utc
                          < req[r].batch[i + 1].weather_date_utc]_vars

\* C20's case: a request made on the 16th has returned two days the provider
\* dated the 15th and the 16th.
C20_Witness ==
    \E r \in Reqs :
        /\ MissServed(r)
        /\ req[r].queried_date_utc = 16
        /\ Len(req[r].batch) = 2
        /\ req[r].batch[1].weather_date_utc = 15

\* C29, as claimed: in the forecast page, once the route has changed and every
\* pending response has arrived, in any order, the star_forecast, city and
\* state shown are those of the response for the current route.
C29_PageShowsRoute ==
    (Len(page.calls) >= 2 /\ page.pending = {}) =>
        /\ page.star_forecast = <<page.route[1], page.route[2]>>
        /\ page.city = (IF page.route[1] = 47 THEN "Seattle"
                        ELSE IF page.route[1] = 42 THEN "Boston"
                        ELSE "New York")
        /\ page.state = (IF page.route[1] = 47 THEN "WA"
                         ELSE IF page.route[1] = 42 THEN "MA" ELSE "NY")

\* C21: the lookup for (latitude, longitude, queried_date) returns every
\* stored row with that prefix and no other, each once, in ascending
\* forecast_date order, and the empty sequence when no row has the prefix.
C21_Lookup ==
    \A k \in AllQueries :
        LET found == FromDatabase(weather, k[1][1], k[1][2], k[2])
            rows == {t \in weather : /\ t.latitude = k[1][1]
                                     /\ t.longitude = k[1][2]
                                     /\ t.queried_date_utc = k[2]}
        IN  /\ Range(found) = rows
            /\ Len(found) = Cardinality(rows)
            /\ \A i \in 1..(Len(found) - 1) :
                   found[i].weather_date_utc < found[i + 1].weather_date_utc
            /\ rows = {} => found = <<>>

\* C21's case: the table holds two days queried on the 15th and rows queried
\* on the 16th for Seattle, and none for Boston.
C21_Witness ==
    /\ Cardinality({t \in weather : t.latitude = 47
                                    /\ t.queried_date_utc = 15}) = 2
    /\ \E t \in weather : t.latitude = 47 /\ t.queried_date_utc = 16
    /\ \A t \in weather : t.latitude # 42

\* The request in slot r is a get_star_forecast made with no star row and
\* with weather rows stored for its coordinate and date.
StarFromStoredWeather(r) ==
    /\ Done(r) /\ req[r].kind = "star"
    /\ req[r].pre_stars = {} /\ req[r].pre_weather # {}

\* C22: a get_star_forecast request made with no star row and with weather
\* rows stored for (latitude, longitude, as_of_date) makes no call to the
\* provider; when it returns, it has taken the stored days and the star table
\* holds one row per stored day, with that day's key and score.
C22_StarFromStoredWeather ==
    \A r \in Reqs :
        StarFromStoredWeather(r) =>
            /\ req[r].upstream_calls = 0
            /\ req[r].err = "none" =>
                   /\ req[r].batch = Ascending(req[r].pre_weather)
                   /\ Cardinality(StarRowsOf(req[r]))
                          = Cardinality(req[r].pre_weather)
                   /\ \A w \in req[r].pre_weather :
                          \E t \in StarRowsOf(req[r]) :
                              /\ KeyOf(t) = KeyOf(w)
                              /\ t.prediction
                                     = 100 - w.weather_json.cloud_cover_pct

\* C22's case: a get_star_forecast request has scored two stored days.
C22_Witness ==
    \E r \in Reqs :
        /\ StarFromStoredWeather(r) /\ req[r].err = "none"
        /\ Cardinality(req[r].pre_weather) = 2
        /\ req[r].star_writes = 2

C26_OtherDate ==
    [][/\ \A r \in Reqs :
              /\ \A i \in 1..Len(req[r].batch) :
                     /\ req[r].batch[i].queried_date_utc = req[r].queried_date_utc
                     /\ req[r].batch[i].latitude = req[r].latitude
                     /\ req[r].batch[i].longitude = req[r].longitude
              /\ MissServed(r) => req[r].upstream_calls = 1
       /\ \A t \in weather : t \in weather']_vars

\* C26's case: with Seattle's rows of the 15th stored, a request for Seattle
\* on the 16th has fetched its own days, and the rows of the 15th are there.
C26_Witness ==
    \E r \in Reqs :
        /\ MissServed(r)
        /\ req[r].latitude = 47 /\ req[r].queried_date_utc = 16
        /\ req[r].upstream_calls = 1
        /\ last.latitude = 47 /\ last.queried_date_utc = 15
        /\ last.daily_forecast # <<>>
        /\ \E t \in weather : t.latitude = 47 /\ t.queried_date_utc = 15

\* C27: under any interleaving, a get_weather_forecast request made with rows
\* stored for its coordinate and date writes no row in either table, so does
\* a get_star_forecast request made with star rows stored for them, and a
\* get_weather_forecast request never writes the star table.
C27_HitWritesNothing ==
    \A r \in Reqs :
        /\ (req[r].kind = "weather" /\ req[r].pre_weather # {}) =>
               req[r].weather_writes = 0 /\ req[r].star_writes = 0
        /\ (req[r].kind = "star" /\ req[r].pre_stars # {}) =>
               req[r].weather_writes = 0 /\ req[r].star_writes = 0
        /\ req[r].kind = "weather" =>
               req[r].star_writes = 0 /\ req[r].pc # "star_persist"

\* C27's case: a get_weather_forecast request has been served two stored days
\* while star rows are stored too.
C27_Witness ==
    \E r \in Reqs :
        /\ Done(r) /\ req[r].kind = "weather" /\ req[r].err = "none"
        /\ req[r].pre_weather # {}
        /\ Len(req[r].daily_forecast) = 2
        /\ stars # {}

\* C23: a request calls the provider at most once; once its call has failed
\* (provider unavailable, rate limit, timeout) the request has ended with
\* that error kind, after that one call and with no row written.
C23_NoRetry ==
    \A r \in Reqs :
        /\ req[r].upstream_calls <= 1
        /\ req[r].upstream_failure # "none" =>
               /\ Done(r)
               /\ req[r].upstream_calls = 1
               /\ req[r].err = (IF req[r].upstream_failure = "rate_limited"
                                    THEN "UpstreamRateLimited"
                                    ELSE "UpstreamUnavailable")
               /\ req[r].daily_forecast = <<>>
               /\ req[r].weather_writes = 0
               /\ req[r].star_writes = 0

\* C23's case: a get_star_forecast request has ended on the provider's rate
\* limit.
C23_Witness ==
    \E r \in Reqs :
        /\ Done(r) /\ req[r].kind = "star"
        /\ req[r].upstream_failure = "rate_limited"
        /\ req[r].err = "UpstreamRateLimited"

\* The error kinds a request can end with.
ErrorKinds ==
    {"UpstreamUnavailable", "UpstreamRateLimited", "StoreUnavailable"}

TwiceStars(r) ==
    /\ Done(r) /\ req[r].kind = "star" /\ req[r].err = "none"
    /\ last.kind = "star" /\ last.err = "none"
    /\ last.latitude = req[r].latitude
    /\ last.longitude = req[r].longitude
    /\ last.queried_date_utc = req[r].queried_date_utc
    /\ last.daily_forecast # <<>>

\* C28, as claimed: two get_star_forecast calls in a row for the same
\* (latitude, longitude, as_of_date) return the same daily forecast (the same
\* days, weather fields and star_visibility), and the second makes no call
\* to the provider.
C28_SameStarForecast ==
    \A r \in Reqs :
        TwiceStars(r) =>
            /\ req[r].daily_forecast = last.daily_forecast
            /\ req[r].upstream_calls = 0

============================================================================
